---- MODULE Spec2Model ----
(***************************************************************************)
(* nmap2docx-ng: one run of the converter script (src/nmap2docx-ng.py).    *)
(*                                                                         *)
(* A Python str is modelled as a sequence of one-character strings, so     *)
(* that strip, upper, endswith, join and the `in` substring test are       *)
(* computed character by character as Python computes them.  Python's None *)
(* is the value None below, which is no sequence of one-character strings  *)
(* and therefore differs from every str, the empty str <<>> included.      *)
(*                                                                         *)
(* An XML element is a record [tag, attrs, children]: attrs is a set of    *)
(* <<name, value>> pairs (an absent attribute has no pair), children is    *)
(* the sequence of child elements in document order.                       *)
(***************************************************************************)
EXTENDS Integers, Sequences, FiniteSets, TLC

VARIABLES
    file,         \* the input file named by -i: [openable, decodable, lines, root]
    output_arg,   \* the value of -o (args.output)
    pc,           \* position of the main script
    handle,       \* the file object of check_xml_file: "unopened", "open", "closed"
    valid,        \* the value check_xml_file returned
    stdout,       \* the lines printed so far
    hosts_data,   \* the list parse_nmap_xml returned
    doc,          \* the docx Document being built: [tables, paragraphs]
    next_host,    \* index into hosts_data of the main script's for loop
    output_file,  \* the variable output_file of the main script
    saved,        \* the files doc.save has written: sequence of [name, doc]
    status,       \* the process exit: "running", "0", "1" or "traceback"
    trace         \* the stages of the run that have started, in order

vars ==
    <<file, output_arg, pc, handle, valid, stdout, hosts_data, doc, next_host,
      output_file, saved, status, trace>>

-----------------------------------------------------------------------------
(* Bounds of the explored inputs.                                          *)

MaxHosts == 2

MaxAddrs == 2

MaxPortChildren == 2

MaxHostnames == 2

-----------------------------------------------------------------------------
(* String literals of the source and of the explored inputs.               *)

XML_DECL ==
    <<"<", "?", "x", "m", "l", " ", "v", "e", "r", "s", "i", "o", "n", "=", "\"", "1", ".", "0", "\"", " ", "e", "n", "c", "o", "d", "i", "n", "g", "=", "\"", "U", "T", "F", "-", "8", "\"", "?", ">">>

DOCTYPE_NMAPRUN ==
    <<"<", "!", "D", "O", "C", "T", "Y", "P", "E", " ", "n", "m", "a", "p", "r", "u", "n", ">">>

XML_DECL_NO_ENCODING ==
    <<"<", "?", "x", "m", "l", " ", "v", "e", "r", "s", "i", "o", "n", "=", "\"", "1", ".", "0", "\"", "?", ">">>

NMAPRUN_TAG ==
    <<"<", "n", "m", "a", "p", "r", "u", "n", ">">>

s_ipv4 ==
    <<"i", "p", "v", "4">>

s_ipv6 ==
    <<"i", "p", "v", "6">>

s_mac ==
    <<"m", "a", "c">>

s_IPv4 ==
    <<"I", "P", "v", "4">>

s_open ==
    <<"o", "p", "e", "n">>

s_Open ==
    <<"O", "p", "e", "n">>

s_closed ==
    <<"c", "l", "o", "s", "e", "d">>

s_filtered ==
    <<"f", "i", "l", "t", "e", "r", "e", "d">>

s_None ==
    <<"N", "o", "n", "e">>

s_Address ==
    <<"A", "d", "d", "r", "e", "s", "s">>

s_Hostnames ==
    <<"H", "o", "s", "t", "n", "a", "m", "e", "s">>

s_Port ==
    <<"P", "o", "r", "t">>

s_Protocol ==
    <<"P", "r", "o", "t", "o", "c", "o", "l">>

s_State ==
    <<"S", "t", "a", "t", "e">>

s_Service ==
    <<"S", "e", "r", "v", "i", "c", "e">>

s_Product ==
    <<"P", "r", "o", "d", "u", "c", "t">>

s_Version ==
    <<"V", "e", "r", "s", "i", "o", "n">>

s_ports_are_in_state ==
    <<" ", "p", "o", "r", "t", "s", " ", "a", "r", "e", " ", "i", "n", " ", "s", "t", "a", "t", "e", ":", " ">>

s_docx ==
    <<".", "d", "o", "c", "x">>

s_processed_hosts ==
    <<"p", "r", "o", "c", "e", "s", "s", "e", "d", "_", "h", "o", "s", "t", "s">>

s_997 ==
    <<"9", "9", "7">>

s_80 ==
    <<"8", "0">>

s_tcp ==
    <<"t", "c", "p">>

s_http ==
    <<"h", "t", "t", "p">>

s_nginx ==
    <<"n", "g", "i", "n", "x">>

s_PTR ==
    <<"P", "T", "R">>

s_1 ==
    <<"1">>

s_2 ==
    <<"2">>

s_22 ==
    <<"2", "2">>

s_443 ==
    <<"4", "4", "3">>

s_a ==
    <<"a">>

s_b ==
    <<"b">>

s_user ==
    <<"u", "s", "e", "r">>

s_out_docx ==
    <<"o", "u", "t", ".", "d", "o", "c", "x">>

s_out ==
    <<"o", "u", "t">>

-----------------------------------------------------------------------------
(* Python values and str methods.                                          *)

None == <<"None">>

\* The characters str.strip() removes when called without an argument.
Whitespace == {" ", "\t", "\n", "\r", "\f"}

UpperMap ==
    [c \in {"a", "b", "c", "d", "e", "f", "g", "h", "i", "j", "k", "l", "m",
            "n", "o", "p", "q", "r", "s", "t", "u", "v", "w", "x", "y", "z"} |->
        CASE c = "a" -> "A" [] c = "b" -> "B" [] c = "c" -> "C" [] c = "d" -> "D"
          [] c = "e" -> "E" [] c = "f" -> "F" [] c = "g" -> "G" [] c = "h" -> "H"
          [] c = "i" -> "I" [] c = "j" -> "J" [] c = "k" -> "K" [] c = "l" -> "L"
          [] c = "m" -> "M" [] c = "n" -> "N" [] c = "o" -> "O" [] c = "p" -> "P"
          [] c = "q" -> "Q" [] c = "r" -> "R" [] c = "s" -> "S" [] c = "t" -> "T"
          [] c = "u" -> "U" [] c = "v" -> "V" [] c = "w" -> "W" [] c = "x" -> "X"
          [] c = "y" -> "Y" [] c = "z" -> "Z"]

\* s.upper()
upper(s) ==
    [k \in 1..Len(s) |-> IF s[k] \in DOMAIN UpperMap THEN UpperMap[s[k]] ELSE s[k]]

RECURSIVE lstrip(_, _)
lstrip(s, chars) ==
    IF s # <<>> /\ Head(s) \in chars THEN lstrip(Tail(s), chars) ELSE s

RECURSIVE rstrip(_, _)
rstrip(s, chars) ==
    IF s # <<>> /\ s[Len(s)] \in chars
    THEN rstrip(SubSeq(s, 1, Len(s) - 1), chars)
    ELSE s

\* s.strip() is strip(s, Whitespace); s.strip(',') is strip(s, {","})
strip(s, chars) == rstrip(lstrip(s, chars), chars)

\* s.endswith(suffix)
endswith(s, suffix) ==
    /\ Len(suffix) <= Len(s)
    /\ SubSeq(s, Len(s) - Len(suffix) + 1, Len(s)) = suffix

\* needle in hay
contains(hay, needle) ==
    \E k \in 0..(Len(hay) - Len(needle)) : SubSeq(hay, k + 1, k + Len(needle)) = needle

\* sep.join(items)
RECURSIVE join(_, _)
join(sep, items) ==
    IF items = <<>> THEN <<>>
    ELSE IF Len(items) = 1 THEN items[1]
    ELSE items[1] \o sep \o join(sep, Tail(items))

\* The text an f-string substitutes for {v}: str(v).
format(v) == IF v = None THEN s_None ELSE v

-----------------------------------------------------------------------------
(* The lxml element tree.                                                  *)

El(tag, attrs, children) == [tag |-> tag, attrs |-> attrs, children |-> children]

\* el.get(name): the attribute's value, None when the attribute is absent
get(el, name) ==
    IF \E p \in el.attrs : p[1] = name
    THEN (CHOOSE p \in el.attrs : p[1] = name)[2]
    ELSE None

\* el.findall(tag): the children with that tag, in document order
findall(el, tag) == SelectSeq(el.children, LAMBDA c : c.tag = tag)

\* el.find(tag) is not None
found(el, tag) == findall(el, tag) # <<>>

\* el.find(tag), the first child with that tag (where found(el, tag))
find(el, tag) == Head(findall(el, tag))

\* the elements root.findall('.//tag') yields for the given children:
\* every descendant with that tag, in document order
RECURSIVE findall_descendants(_, _)
findall_descendants(children, tag) ==
    IF children = <<>> THEN <<>>
    ELSE LET c == Head(children)
         IN  (IF c.tag = tag THEN <<c>> ELSE <<>>)
                 \o findall_descendants(c.children, tag)
                 \o findall_descendants(Tail(children), tag)

-----------------------------------------------------------------------------
(* parse_nmap_xml                                                          *)

\* lines 39-43: the accumulator host_data['address'] after the loop
RECURSIVE address_accumulate(_)
address_accumulate(addresses) ==
    IF addresses = <<>> THEN <<>>
    ELSE LET address == Head(addresses)
             addr_type == get(address, "addrtype")
             addr == get(address, "addr")
         IN  (IF addr_type = s_ipv4 \/ addr_type = s_ipv6
              THEN format(addr) \o <<" ", "(">> \o upper(addr_type) \o <<")", ",", " ">>
              ELSE <<>>)
                 \o address_accumulate(Tail(addresses))

\* a variant of line 45 that strips whitespace only
host_address_whitespace_only(host) ==
    strip(address_accumulate(findall(host, "address")), Whitespace)

\* line 45
host_address(host) ==
    strip(strip(address_accumulate(findall(host, "address")), Whitespace), {","})

\* lines 48-51
host_hostnames(host) ==
    IF found(host, "hostnames")
    THEN LET hns == findall(find(host, "hostnames"), "hostname")
         IN  join(<<",", " ">>,
                  [k \in 1..Len(hns) |->
                      format(get(hns[k], "name")) \o <<" ", "(">>
                          \o format(get(hns[k], "type")) \o <<")">>])
    ELSE <<>>

\* a variant of lines 60-63 in which a missing service child raises too
port_raises_without_service(port) == ~found(port, "state") \/ ~found(port, "service")

\* line 60: port.find('state') is None, so .get raises AttributeError
port_raises(port) == ~found(port, "state")

\* lines 57-64
port_data(port) ==
    [portid   |-> get(port, "portid"),
     protocol |-> get(port, "protocol"),
     state    |-> get(find(port, "state"), "state"),
     service  |-> IF found(port, "service") THEN get(find(port, "service"), "name") ELSE <<>>,
     product  |-> IF found(port, "service") THEN get(find(port, "service"), "product") ELSE <<>>,
     version  |-> IF found(port, "service") THEN get(find(port, "service"), "version") ELSE <<>>]

\* a variant of lines 54-65 that keeps the open ports only
host_ports_open_only(host) ==
    IF found(host, "ports")
    THEN LET ports == SelectSeq(findall(find(host, "ports"), "port"),
                                LAMBDA p : get(find(p, "state"), "state") = s_open)
         IN  [k \in 1..Len(ports) |-> port_data(ports[k])]
    ELSE <<>>

\* lines 54-65
host_ports(host) ==
    IF found(host, "ports")
    THEN LET ports == findall(find(host, "ports"), "port")
         IN  [k \in 1..Len(ports) |-> port_data(ports[k])]
    ELSE <<>>

\* a variant of lines 68-73 that summarises every extraports child
host_extraports_all(host) ==
    IF found(host, "ports")
    THEN LET all == findall(find(host, "ports"), "extraports")
         IN  [k \in 1..Len(all) |->
                 [state |-> get(all[k], "state"), count |-> get(all[k], "count")]]
    ELSE <<>>

\* lines 68-73
host_extraports(host) ==
    IF found(host, "ports") /\ found(find(host, "ports"), "extraports")
    THEN LET extraports == find(find(host, "ports"), "extraports")
         IN  <<[state |-> get(extraports, "state"), count |-> get(extraports, "count")]>>
    ELSE <<>>

\* lines 36-76: the host_data of one host element
host_data(host) ==
    [address    |-> host_address(host),
     hostnames  |-> host_hostnames(host),
     ports      |-> host_ports(host),
     extraports |-> host_extraports(host)]

host_raises(host) ==
    /\ found(host, "ports")
    /\ \E k \in 1..Len(findall(find(host, "ports"), "port")) :
           port_raises(findall(find(host, "ports"), "port")[k])

\* a variant of line 35 that skips the hosts without a ports element
hosts_of_with_ports(root) ==
    SelectSeq(findall_descendants(root.children, "host"), LAMBDA h : found(h, "ports"))

\* the host elements of root.findall('.//host')
hosts_of(root) == findall_descendants(root.children, "host")

\* parse_nmap_xml raises: some visited port has no state child
parse_raises(root) ==
    \E k \in 1..Len(hosts_of(root)) : host_raises(hosts_of(root)[k])

\* lines 34-78: the list returned (where ~parse_raises(root))
parse_nmap_xml(root) ==
    [k \in 1..Len(hosts_of(root)) |-> host_data(hosts_of(root)[k])]

-----------------------------------------------------------------------------
(* The docx table model.  A cell is [text, runs, fill, color, size, font,  *)
(* span]: runs counts the runs of the cell's paragraph, fill is the w:shd  *)
(* fill of the cell, color/size/font are the font settings of its runs,    *)
(* span is the number of grid columns the cell covers.  A row is the       *)
(* sequence of its distinct cells.                                         *)

\* line 83: cols=6
Cols == 6

\* the default value of the parameter text_color (line 8)
NoTextColor == "None"

new_cell ==
    [text |-> <<>>, runs |-> 0, fill |-> "none", color |-> "default",
     size |-> "default", font |-> "default", span |-> 1]

\* table.add_row(): Cols empty cells
add_row == [k \in 1..Cols |-> new_cell]

\* row.cells[0].merge(row.cells[5]): one cell spanning the row
merge(row) == <<[row[1] EXCEPT !.span = Len(row)]>>

\* cell.text = text: the cell's content becomes one paragraph with one new run
set_text(cell, text) ==
    [cell EXCEPT !.text = text, !.runs = 1, !.color = "default",
                 !.size = "default", !.font = "default"]

\* lines 8-15
set_cell_background_color(cell, color, text_color) ==
    [cell EXCEPT !.fill = color,
                 !.color = IF text_color # NoTextColor /\ text_color # "" /\ cell.runs > 0
                           THEN text_color
                           ELSE @]

\* lines 87-90 and 97-100: a merged header band
header_band(label) ==
    <<set_cell_background_color(set_text(merge(add_row)[1], label), "E94347", "FFFFFF")>>

\* lines 92-94 and 102-104: a merged value row
value_row(text) == <<set_text(merge(add_row)[1], text)>>

\* line 107
headers == <<s_Port, s_Protocol, s_State, s_Service, s_Product, s_Version>>

\* a variant of lines 108-111 that passes no text colour
column_titles_no_text_color ==
    [k \in 1..Cols |->
        set_cell_background_color(set_text(add_row[k], headers[k]), "E94347", NoTextColor)]

\* lines 108-111
column_titles ==
    [k \in 1..Cols |->
        set_cell_background_color(set_text(add_row[k], headers[k]), "E94347", "FFFFFF")]

\* lines 116-131: the values assigned to the six cells of a port row
port_texts(port) ==
    <<port.portid, port.protocol, port.state, port.service,
      IF port.product # None THEN format(port.product) ELSE <<>>,
      IF port.version # None THEN format(port.version) ELSE <<>> >>

\* cell.text = None raises TypeError in python-docx (lines 116-119)
port_row_raises(port) == \E k \in 1..Cols : port_texts(port)[k] = None

\* a variant of line 133 that compares the state case-insensitively
port_color_case_insensitive(port) ==
    IF port.state # None /\ upper(port.state) = upper(s_open) THEN "EAF1DD" ELSE "F2DBDB"

\* line 133
port_color(port) == IF port.state = s_open THEN "EAF1DD" ELSE "F2DBDB"

\* lines 115-135
port_row(port) ==
    [k \in 1..Cols |->
        set_cell_background_color(set_text(add_row[k], port_texts(port)[k]),
                                  port_color(port), NoTextColor)]

\* the row left behind when an assignment of lines 116-119 raises: the cells
\* before the failing one hold their text, the failing cell an empty run
partial_port_row(port) ==
    LET f == CHOOSE k \in 1..Cols :
                 /\ port_texts(port)[k] = None
                 /\ \A j \in 1..(k - 1) : port_texts(port)[j] # None
    IN  [k \in 1..Cols |->
            IF k < f THEN set_text(add_row[k], port_texts(port)[k])
            ELSE IF k = f THEN [add_row[k] EXCEPT !.runs = 1]
            ELSE add_row[k]]

\* lines 114-135: the rows the loop adds, up to the first one that raises
RECURSIVE port_rows(_)
port_rows(ports) ==
    IF ports = <<>> THEN <<>>
    ELSE IF port_row_raises(Head(ports)) THEN <<partial_port_row(Head(ports))>>
    ELSE <<port_row(Head(ports))>> \o port_rows(Tail(ports))

\* lines 138-141
extraport_rows(extraports) ==
    [k \in 1..Len(extraports) |->
        <<set_text(merge(add_row)[1],
                   format(extraports[k].count) \o s_ports_are_in_state
                       \o format(extraports[k].state))>>]

\* lines 144-149
set_font(rows) ==
    [r \in 1..Len(rows) |->
        [k \in 1..Len(rows[r]) |->
            IF rows[r][k].runs > 0
            THEN [rows[r][k] EXCEPT !.size = "Pt(9)", !.font = "Calibri"]
            ELSE rows[r][k]]]

\* create_final_host_table raises part-way
table_raises(hd) == \E k \in 1..Len(hd.ports) : port_row_raises(hd.ports[k])

\* lines 87-111
head_rows(hd) ==
    <<header_band(s_Address), value_row(hd.address),
      header_band(s_Hostnames), value_row(hd.hostnames), column_titles>>

\* lines 81-152: the document after the call (also when the call raises)
create_final_host_table(document, hd) ==
    IF table_raises(hd)
    THEN [tables |-> Append(document.tables,
                            [style |-> "Table Grid",
                             rows |-> head_rows(hd) \o port_rows(hd.ports)]),
          paragraphs |-> document.paragraphs]
    ELSE [tables |-> Append(document.tables,
                            [style |-> "Table Grid",
                             rows |-> set_font(head_rows(hd) \o port_rows(hd.ports)
                                                   \o extraport_rows(hd.extraports))]),
          paragraphs |-> document.paragraphs + 1]

-----------------------------------------------------------------------------
(* check_xml_file and the main script                                      *)

\* file.readline(): the k-th line, '' at end of file
readline(lines, k) == IF k <= Len(lines) THEN lines[k] ELSE <<>>

\* a variant of line 161 that tests the first line only
header_ok_first_line_only(lines) ==
    contains(readline(lines, 1), XML_DECL)

\* line 161
header_ok(lines) ==
    /\ contains(readline(lines, 1), XML_DECL)
    /\ contains(readline(lines, 2), DOCTYPE_NMAPRUN)

\* a variant of lines 158-167 that closes the file only when reading succeeds
handle_after_with_leak(decodable) == IF decodable THEN "closed" ELSE "open"

\* line 158: leaving the with block closes the file, whether the block
\* returned or raised
handle_after_with(decodable) == "closed"

\* line 189
Document == [tables |-> <<>>, paragraphs |-> 0]

\* lines 194-195
normalise(name) == IF ~endswith(name, s_docx) THEN name \o s_docx ELSE name

-----------------------------------------------------------------------------
(* The explored inputs.                                                    *)

SeqsUpTo(S, n) == UNION {[1..k -> S] : k \in 0..n}

\* an attribute that is absent or has one of the given values
OptAttr(name, values) == {{}} \cup {{<<name, v>>} : v \in values}

AddressEls ==
    {El("address", t \cup {<<"addr", s_1>>}, <<>>) :
         t \in OptAttr("addrtype", {s_ipv4, s_ipv6, s_mac, s_IPv4})}
    \cup {El("address", {<<"addrtype", s_ipv4>>} \cup a, <<>>) :
              a \in OptAttr("addr", {s_2, <<>>})}

HostnameEls ==
    {El("hostname", {<<"name", s_a>>, <<"type", s_PTR>>}, <<>>),
     El("hostname", {<<"name", s_b>>, <<"type", s_user>>}, <<>>),
     El("hostname", {}, <<>>)}

HostnamesEls ==
    {El("hostnames", {}, hns) : hns \in SeqsUpTo(HostnameEls, MaxHostnames)}

StateEl(attrs) == El("state", attrs, <<>>)

ServiceEl(attrs) == El("service", attrs, <<>>)

FullService ==
    ServiceEl({<<"name", s_http>>, <<"product", s_nginx>>, <<"version", s_1>>})

PortEl(portid, children) ==
    El("port", portid \cup {<<"protocol", s_tcp>>}, children)

PortEls ==
    \* the state child: absent, without its attribute, or with various values
    {PortEl({<<"portid", s_80>>}, st \o <<FullService>>) :
         st \in {<<>>} \cup
                {<<StateEl(a)>> :
                     a \in OptAttr("state", {s_open, s_closed, s_Open, <<>>})}}
    \* the service child: absent, or with some of its attributes
    \cup {PortEl({<<"portid", s_22>>}, <<StateEl({<<"state", s_open>>})>> \o sv) :
              sv \in {<<>>} \cup
                     {<<ServiceEl(n \cup p \cup v)>> :
                          n \in OptAttr("name", {s_http}),
                          p \in OptAttr("product", {s_nginx}),
                          v \in OptAttr("version", {s_1})}}
    \* the port attributes absent
    \cup {El("port", {}, <<StateEl({<<"state", s_filtered>>})>>)}

ExtraportsEls ==
    {El("extraports", {<<"state", s_filtered>>, <<"count", s_997>>}, <<>>),
     El("extraports", {<<"state", s_closed>>, <<"count", s_2>>}, <<>>),
     El("extraports", {}, <<>>)}

HostEl(children) == El("host", {}, children)

Root(children) == El("nmaprun", {}, children)

\* one host whose address children vary
AddressRoots ==
    {Root(<<HostEl(as)>>) : as \in SeqsUpTo(AddressEls, MaxAddrs)}

\* one host whose hostnames child varies
HostnamesRoots ==
    {Root(<<HostEl(<<El("address", {<<"addrtype", s_ipv4>>, <<"addr", s_1>>}, <<>>), h>>)>>) :
         h \in HostnamesEls}

\* one host whose ports element varies
PortsRoots ==
    {Root(<<HostEl(<<El("ports", {}, cs)>>)>>) :
         cs \in SeqsUpTo(PortEls \cup ExtraportsEls, MaxPortChildren)}

OpenPort(portid) ==
    PortEl({<<"portid", portid>>}, <<StateEl({<<"state", s_open>>}), FullService>>)

SampleHosts ==
    {\* no ports element
     HostEl(<<El("address", {<<"addrtype", s_ipv4>>, <<"addr", s_1>>}, <<>>)>>),
     \* one open port
     HostEl(<<El("address", {<<"addrtype", s_ipv6>>, <<"addr", s_2>>}, <<>>),
              El("hostnames", {}, <<El("hostname", {<<"name", s_a>>, <<"type", s_PTR>>}, <<>>)>>),
              El("ports", {}, <<OpenPort(s_80)>>)>>),
     \* an extraports summary and no port
     HostEl(<<El("ports", {}, <<El("extraports", {<<"state", s_filtered>>, <<"count", s_997>>}, <<>>)>>)>>),
     \* a port without a state child
     HostEl(<<El("ports", {}, <<OpenPort(s_443), PortEl({<<"portid", s_22>>}, <<FullService>>)>>)>>),
     \* a port whose service has no name
     HostEl(<<El("ports", {}, <<PortEl({<<"portid", s_22>>},
                                        <<StateEl({<<"state", s_open>>}), ServiceEl({})>>)>>)>>)}

\* the children of the root: hosts and other elements, in any order
HostsRoots ==
    {Root(cs) :
         cs \in SeqsUpTo(SampleHosts \cup {El("runstats", {}, <<>>)}, MaxHosts)}

line(s) == s \o <<"\n">>

GoodLines == <<line(XML_DECL), line(DOCTYPE_NMAPRUN), line(NMAPRUN_TAG)>>

HeaderLines ==
    {GoodLines,
     <<line(<<" ">> \o XML_DECL), line(DOCTYPE_NMAPRUN \o NMAPRUN_TAG)>>,
     <<line(XML_DECL), line(NMAPRUN_TAG)>>,
     <<line(XML_DECL_NO_ENCODING), line(DOCTYPE_NMAPRUN)>>,
     <<line(DOCTYPE_NMAPRUN), line(XML_DECL)>>,
     <<line(XML_DECL \o DOCTYPE_NMAPRUN), line(NMAPRUN_TAG)>>,
     <<line(XML_DECL)>>,
     <<>>}

SampleRoots ==
    {Root(<<h>>) : h \in SampleHosts}

OutputArgs == {s_processed_hosts, s_out_docx, s_out, s_docx}

InputFile(openable, decodable, lines, root) ==
    [openable |-> openable, decodable |-> decodable, lines |-> lines, root |-> root]

\* the runs explored: (file, -o value)
Inputs ==
    {<<InputFile(TRUE, TRUE, GoodLines, r), s_processed_hosts>> :
         r \in AddressRoots \cup HostnamesRoots \cup PortsRoots \cup HostsRoots}
    \cup {<<InputFile(o, d, ls, r), s_processed_hosts>> :
              o \in BOOLEAN, d \in BOOLEAN, ls \in HeaderLines, r \in SampleRoots}
    \cup {<<InputFile(TRUE, TRUE, GoodLines, r), out>> :
              r \in SampleRoots, out \in OutputArgs}

-----------------------------------------------------------------------------
(* The run.                                                                *)

Init ==
    /\ \E input \in Inputs :
           /\ file = input[1]
           /\ output_arg = input[2]
           /\ output_file = input[2]
    /\ pc = "start"
    /\ handle = "unopened"
    /\ valid = FALSE
    /\ stdout = <<>>
    /\ hosts_data = <<>>
    /\ doc = Document
    /\ next_host = 1
    /\ saved = <<>>
    /\ status = "running"
    /\ trace = <<>>

\* line 158: open(xml_file_path, 'r'); lines 165-167 when it raises
OpenInput ==
    /\ pc = "start"
    /\ trace' = Append(trace, "check")
    /\ IF file.openable
       THEN /\ handle' = "open"
            /\ pc' = "header"
            /\ UNCHANGED <<valid, stdout>>
       ELSE /\ stdout' = Append(stdout, "Error reading file")
            /\ valid' = FALSE
            /\ pc' = "checked"
            /\ UNCHANGED handle
    /\ UNCHANGED <<file, output_arg, hosts_data, doc, next_host, output_file, saved, status>>

\* lines 159-167: the two readline calls, the test, and leaving the with block
ReadHeader ==
    /\ pc = "header"
    /\ handle' = handle_after_with(file.decodable)
    /\ IF file.decodable
       THEN /\ valid' = header_ok(file.lines)
            /\ UNCHANGED stdout
       ELSE /\ stdout' = Append(stdout, "Error reading file")
            /\ valid' = FALSE
    /\ pc' = "checked"
    /\ UNCHANGED <<file, output_arg, hosts_data, doc, next_host, output_file, saved, status, trace>>

\* lines 180-184
ExitInvalid ==
    /\ pc = "checked"
    /\ ~valid
    /\ stdout' = stdout \o <<"Invalid XML file.",
                            "Please generate a valid Nmap file with a command like:",
                            "sudo nmap -Pn -sC -sV -oX targets -iL targets.txt">>
    /\ status' = "1"
    /\ pc' = "exited"
    /\ UNCHANGED <<file, output_arg, handle, valid, hosts_data, doc, next_host, output_file, saved, trace>>

\* line 186
ParseNmapXml ==
    /\ pc = "checked"
    /\ valid
    /\ trace' = Append(trace, "parse")
    /\ IF parse_raises(file.root)
       THEN /\ status' = "traceback"
            /\ pc' = "exited"
            /\ UNCHANGED hosts_data
       ELSE /\ hosts_data' = parse_nmap_xml(file.root)
            /\ pc' = "parsed"
            /\ UNCHANGED status
    /\ UNCHANGED <<file, output_arg, handle, valid, stdout, doc, next_host, output_file, saved>>

\* line 189
NewDocument ==
    /\ pc = "parsed"
    /\ doc' = Document
    /\ next_host' = 1
    /\ pc' = "rendering"
    /\ UNCHANGED <<file, output_arg, handle, valid, stdout, hosts_data, output_file, saved, status, trace>>

\* lines 190-191: one iteration of the loop
CreateFinalHostTable ==
    /\ pc = "rendering"
    /\ next_host <= Len(hosts_data)
    /\ trace' = Append(trace, "render")
    /\ doc' = create_final_host_table(doc, hosts_data[next_host])
    /\ IF table_raises(hosts_data[next_host])
       THEN /\ status' = "traceback"
            /\ pc' = "exited"
            /\ UNCHANGED next_host
       ELSE /\ next_host' = next_host + 1
            /\ UNCHANGED <<status, pc>>
    /\ UNCHANGED <<file, output_arg, handle, valid, stdout, hosts_data, output_file, saved>>

\* lines 194-195
OutputNaming ==
    /\ pc = "rendering"
    /\ next_host > Len(hosts_data)
    /\ trace' = Append(trace, "name")
    /\ output_file' = normalise(output_file)
    /\ pc' = "named"
    /\ UNCHANGED <<file, output_arg, handle, valid, stdout, hosts_data, doc, next_host, saved, status>>

\* line 198
Save ==
    /\ pc = "named"
    /\ trace' = Append(trace, "save")
    /\ saved' = Append(saved, [name |-> output_file, doc |-> doc])
    /\ status' = "0"
    /\ pc' = "exited"
    /\ UNCHANGED <<file, output_arg, handle, valid, stdout, hosts_data, doc, next_host, output_file>>

Next ==
    \/ OpenInput
    \/ ReadHeader
    \/ ExitInvalid
    \/ ParseNmapXml
    \/ NewDocument
    \/ CreateFinalHostTable
    \/ OutputNaming
    \/ Save

Spec == Init /\ [][Next]_vars

TypeOK ==
    /\ pc \in {"start", "header", "checked", "parsed", "rendering", "named", "exited"}
    /\ handle \in {"unopened", "open", "closed"}
    /\ status \in {"running", "0", "1", "traceback"}
    /\ valid \in BOOLEAN


-----------------------------------------------------------------------------
(* Properties.  The input is described from the element tree itself: the   *)
(* host elements are the children of the root with tag host, a host's      *)
(* ports element is its child with tag ports (the explored hosts have at   *)
(* most one).                                                              *)

s_IPV4 ==
    <<"I", "P", "V", "4">>

s_IPV6 ==
    <<"I", "P", "V", "6">>

Children(el, tag) == SelectSeq(el.children, LAMBDA c : c.tag = tag)

HostElements == Children(file.root, "host")

\* the port elements under the host's ports element, in document order
PortElements(host) ==
    IF Children(host, "ports") = <<>> THEN <<>>
    ELSE Children(Children(host, "ports")[1], "port")

\* the extraports elements under the host's ports element, in document order
ExtraportsElements(host) ==
    IF Children(host, "ports") = <<>> THEN <<>>
    ELSE Children(Children(host, "ports")[1], "extraports")

HasAttr(el, name) == \E p \in el.attrs : p[1] = name

Attr(el, name) == (CHOOSE p \in el.attrs : p[1] = name)[2]

\* parse_nmap_xml has returned
Parsed == pc \in {"parsed", "rendering", "named"} \/ status = "0"

\* the tables whose create_final_host_table call has returned
CompletedTables == 1..(next_host - 1)

IsPrefix(s, t) == Len(s) <= Len(t) /\ SubSeq(t, 1, Len(s)) = s

InTrace(stage) == \E k \in 1..Len(trace) : trace[k] = stage

Diagnostic ==
    <<"Invalid XML file.",
      "Please generate a valid Nmap file with a command like:",
      "sudo nmap -Pn -sC -sV -oX targets -iL targets.txt">>

\* the header the claim calls invalid
BadHeader ==
    \/ ~file.openable
    \/ ~contains(readline(file.lines, 1), XML_DECL)
    \/ ~contains(readline(file.lines, 2), DOCTYPE_NMAPRUN)

\* C1: when the first line lacks the XML declaration, the second line lacks
\* the DOCTYPE, or the file cannot be opened, no stage after the header check
\* ever starts (no parse, no table, no save, no output file), the check
\* returns False, and the run ends with the diagnostic printed and exit
\* status 1.
C1_InvalidHeaderExits ==
    BadHeader =>
        /\ IsPrefix(trace, <<"check">>)
        /\ hosts_data = <<>>
        /\ doc = Document
        /\ saved = <<>>
        /\ pc = "checked" => ~valid
        /\ pc = "exited" =>
               /\ status = "1"
               /\ Len(stdout) >= 3
               /\ SubSeq(stdout, Len(stdout) - 2, Len(stdout)) = Diagnostic

\* a readable file with the XML declaration but no DOCTYPE line has exited
C1_Witness ==
    /\ file.openable /\ file.decodable
    /\ contains(readline(file.lines, 1), XML_DECL)
    /\ ~contains(readline(file.lines, 2), DOCTYPE_NMAPRUN)
    /\ pc = "exited" /\ status = "1" /\ saved = <<>>

\* C2: in every host and port record parse_nmap_xml returns, address,
\* hostnames, service, product and version are strings, never None.
C2_FieldsAreStrings ==
    Parsed =>
        \A h \in 1..Len(hosts_data) :
            /\ hosts_data[h].address # None
            /\ hosts_data[h].hostnames # None
            /\ \A p \in 1..Len(hosts_data[h].ports) :
                   /\ hosts_data[h].ports[p].service # None
                   /\ hosts_data[h].ports[p].product # None
                   /\ hosts_data[h].ports[p].version # None

\* the header bands of a table: rows 1 and 3, accent fill and white text
BandsAreWhiteOnAccent(rows) ==
    \A r \in {1, 3} :
        /\ Len(rows[r]) = 1
        /\ rows[r][1].fill = "E94347"
        /\ rows[r][1].color = "FFFFFF"

IsMergedRow(row, text) ==
    /\ Len(row) = 1
    /\ row[1].span = 6
    /\ row[1].text = text

\* a single host with one port, whose state is "open", and no extraports
MinimalInput ==
    /\ Len(HostElements) = 1
    /\ Len(PortElements(HostElements[1])) = 1
    /\ ExtraportsElements(HostElements[1]) = <<>>
    /\ Children(PortElements(HostElements[1])[1], "state") # <<>>
    /\ HasAttr(Children(PortElements(HostElements[1])[1], "state")[1], "state")
    /\ Attr(Children(PortElements(HostElements[1])[1], "state")[1], "state") = s_open

\* every rendered table is the Address band, the address, the Hostnames
\* band, the hostnames, the column header row, one row per port element of
\* the host's ports element in document order, then one row per extraports
\* summary: 5 + |ports| + |extraports| rows
RowSequence ==
    \A t \in CompletedTables :
        LET rows == doc.tables[t].rows
            host == HostElements[t]
            ports == PortElements(host)
            n == Len(ports)
            extra == hosts_data[t].extraports
        IN  /\ Len(rows) = 5 + n + Len(extra)
            /\ IsMergedRow(rows[1], s_Address)
            /\ IsMergedRow(rows[2], hosts_data[t].address)
            /\ IsMergedRow(rows[3], s_Hostnames)
            /\ IsMergedRow(rows[4], hosts_data[t].hostnames)
            /\ Len(rows[5]) = 6
            /\ \A k \in 1..6 : rows[5][k].text = headers[k] /\ rows[5][k].span = 1
            /\ \A k \in 1..n :
                   /\ Len(rows[5 + k]) = 6
                   /\ HasAttr(ports[k], "portid")
                   /\ rows[5 + k][1].text = Attr(ports[k], "portid")
                   /\ rows[5 + k][2].text = Attr(ports[k], "protocol")
                   /\ rows[5 + k][3].text = Attr(Children(ports[k], "state")[1], "state")
            /\ \A k \in 1..Len(extra) :
                   IsMergedRow(rows[5 + n + k],
                               format(extra[k].count) \o s_ports_are_in_state
                                   \o format(extra[k].state))

\* C4 as stated: the row sequence above, and 7 rows for a single host with
\* one open port and no extraports.
C4_RowSequenceSevenRows ==
    /\ RowSequence
    /\ (MinimalInput /\ 1 \in CompletedTables) => Len(doc.tables[1].rows) = 7

\* C4 amended: the row sequence above, so 5 + |ports| + |extraports| rows,
\* which is 6 rows for a single host with one open port and no extraports.
C4_RowSequenceSixRows ==
    /\ RowSequence
    /\ (MinimalInput /\ 1 \in CompletedTables) => Len(doc.tables[1].rows) = 6

\* a single host with one open port and no extraports was saved as one
\* table, whose sixth and last row is the port's
C4_Witness ==
    /\ status = "0"
    /\ MinimalInput
    /\ Len(saved[1].doc.tables) = 1
    /\ Len(saved[1].doc.tables[1].rows) = 6
    /\ saved[1].doc.tables[1].rows[6][3].text = s_open

\* C5: in every port row all six cells are filled EAF1DD if the port's
\* state attribute is exactly "open", and F2DBDB for any other value.
C5_PortRowFill ==
    \A t \in CompletedTables :
        LET rows == doc.tables[t].rows
            ports == PortElements(HostElements[t])
        IN  \A k \in 1..Len(ports) :
                LET state == Attr(Children(ports[k], "state")[1], "state")
                IN  \A c \in 1..6 :
                        /\ state = s_open => rows[5 + k][c].fill = "EAF1DD"
                        /\ state # s_open => rows[5 + k][c].fill = "F2DBDB"

\* a port whose state is "Open" was rendered as a red row
C5_Witness ==
    /\ 1 \in CompletedTables
    /\ Len(doc.tables[1].rows) >= 6
    /\ doc.tables[1].rows[6][3].text = s_Open
    /\ doc.tables[1].rows[6][1].fill = "F2DBDB"

\* C6: parse_nmap_xml returns one record per host element, in document
\* order, with or without a ports element, and the saved document has one
\* table per record.
C6_OneRecordAndTablePerHost ==
    /\ Parsed =>
           /\ Len(hosts_data) = Len(HostElements)
           /\ \A h \in 1..Len(HostElements) :
                  hosts_data[h] = host_data(HostElements[h])
    /\ \A s \in 1..Len(saved) :
           /\ Len(saved[s].doc.tables) = Len(HostElements)
           /\ \A t \in 1..Len(HostElements) :
                  IsMergedRow(saved[s].doc.tables[t].rows[2], hosts_data[t].address)

\* two hosts, the first without a ports element, were saved as two tables
C6_Witness ==
    /\ status = "0"
    /\ Len(HostElements) = 2
    /\ Children(HostElements[1], "ports") = <<>>
    /\ Children(HostElements[2], "ports") # <<>>
    /\ Len(saved[1].doc.tables) = 2

\* C7: a host's extraports list has one entry, taken from the state and
\* count attributes of the first extraports child of its ports element, when
\* there is such a child, and is empty otherwise; the entry is rendered as
\* one merged row "<count> ports are in state: <state>".
C7_Extraports ==
    /\ Parsed =>
           \A h \in 1..Len(hosts_data) :
               LET els == ExtraportsElements(HostElements[h])
                   extra == hosts_data[h].extraports
               IN  /\ Len(extra) = (IF els = <<>> THEN 0 ELSE 1)
                   /\ els # <<>> =>
                          /\ HasAttr(els[1], "state") => extra[1].state = Attr(els[1], "state")
                          /\ HasAttr(els[1], "count") => extra[1].count = Attr(els[1], "count")
    /\ \A t \in CompletedTables :
           LET els == ExtraportsElements(HostElements[t])
               rows == doc.tables[t].rows
           IN  /\ els = <<>> => Len(rows) = 5 + Len(PortElements(HostElements[t]))
               /\ (els # <<>> /\ HasAttr(els[1], "state") /\ HasAttr(els[1], "count")) =>
                      /\ Len(rows) = 6 + Len(PortElements(HostElements[t]))
                      /\ IsMergedRow(rows[Len(rows)],
                                     Attr(els[1], "count") \o s_ports_are_in_state
                                         \o Attr(els[1], "state"))

\* a host with an extraports child and no port child was rendered with zero
\* port rows and the row "997 ports are in state: filtered"
C7_Witness ==
    /\ 1 \in CompletedTables
    /\ PortElements(HostElements[1]) = <<>>
    /\ Len(doc.tables[1].rows) = 6
    /\ doc.tables[1].rows[6][1].text = s_997 \o s_ports_are_in_state \o s_filtered

\* the entries "<addr> (<TYPE>)" of the ipv4 and ipv6 address children
RECURSIVE AddressEntries(_)
AddressEntries(addresses) ==
    IF addresses = <<>> THEN <<>>
    ELSE LET a == Head(addresses)
             addr == IF HasAttr(a, "addr") THEN Attr(a, "addr") ELSE s_None
         IN  (IF HasAttr(a, "addrtype") /\ Attr(a, "addrtype") = s_ipv4
              THEN <<addr \o <<" ", "(">> \o s_IPV4 \o <<")">> >>
              ELSE IF HasAttr(a, "addrtype") /\ Attr(a, "addrtype") = s_ipv6
              THEN <<addr \o <<" ", "(">> \o s_IPV6 \o <<")">> >>
              ELSE <<>>)
                 \o AddressEntries(Tail(addresses))

Trimmed(s) ==
    s = <<>> \/ (s[1] \notin Whitespace \cup {","} /\ s[Len(s)] \notin Whitespace \cup {","})

\* C8: a host's address is the ", "-joined list of "<addr> (<TYPE>)" for
\* its ipv4 and ipv6 address children in document order, without leading or
\* trailing comma or whitespace; other types are skipped; no such child
\* gives the empty string.
C8_Address ==
    Parsed =>
        \A h \in 1..Len(hosts_data) :
            LET entries == AddressEntries(Children(HostElements[h], "address"))
                joined == join(<<",", " ">>, entries)
            IN  /\ Trimmed(hosts_data[h].address)
                /\ hosts_data[h].address = strip(joined, Whitespace \cup {","})
                /\ Trimmed(joined) => hosts_data[h].address = joined
                /\ entries = <<>> => hosts_data[h].address = <<>>

\* a host with an ipv4 and an ipv6 address child got both entries, joined
C8_Witness ==
    /\ Parsed
    /\ Len(hosts_data) = 1
    /\ Len(Children(HostElements[1], "address")) = 2
    /\ hosts_data[1].address =
           s_1 \o <<" ", "(">> \o s_IPV4 \o <<")", ",", " ">> \o s_1 \o <<" ", "(">> \o s_IPV6 \o <<")">>

\* some port element of the input has no state child
SomePortLacksState ==
    \E h \in 1..Len(HostElements) :
        \E p \in 1..Len(PortElements(HostElements[h])) :
            Children(PortElements(HostElements[h])[p], "state") = <<>>

\* the header check has passed and parse_nmap_xml has been called
ParseCalled == InTrace("parse")

\* C9: if some port element lacks a state child, parse_nmap_xml raises: the
\* run ends with a traceback, no host record, no table and no saved file.  A
\* port without a service child does not make it raise, and gets service,
\* product and version equal to the empty string.
C9_MissingStateIsFatal ==
    /\ (ParseCalled /\ SomePortLacksState) =>
           /\ pc = "exited" /\ status = "traceback"
           /\ trace = <<"check", "parse">>
           /\ hosts_data = <<>>
           /\ doc = Document
           /\ saved = <<>>
    /\ (ParseCalled /\ ~SomePortLacksState) => Parsed \/ InTrace("render")
    /\ Parsed =>
           \A h \in 1..Len(hosts_data) :
               \A p \in 1..Len(PortElements(HostElements[h])) :
                   Children(PortElements(HostElements[h])[p], "service") = <<>> =>
                       /\ hosts_data[h].ports[p].service = <<>>
                       /\ hosts_data[h].ports[p].product = <<>>
                       /\ hosts_data[h].ports[p].version = <<>>

\* the second of two hosts has a port without a state child, and the run
\* ended in parse_nmap_xml
C9_Witness ==
    /\ Len(HostElements) = 2
    /\ \A p \in 1..Len(PortElements(HostElements[1])) :
           Children(PortElements(HostElements[1])[p], "state") # <<>>
    /\ SomePortLacksState
    /\ status = "traceback"
    /\ trace = <<"check", "parse">>

\* the stages of a complete run over n hosts
Stages(n) == <<"check", "parse">> \o [k \in 1..n |-> "render"] \o <<"name", "save">>

\* C10: the stages start in the order header check, parse, one rendering per
\* host record, output naming, save; and the file opened for the header
\* check is closed when check_xml_file returns, on every path, so before the
\* parse starts or the process exits.
C10_StageOrderAndHandle ==
    /\ \E n \in 0..Len(trace) :
           /\ IsPrefix(trace, Stages(n))
           /\ InTrace("name") => n = Len(hosts_data)
    /\ handle = "open" => pc = "header"
    /\ (pc \notin {"start", "header"} /\ file.openable) => handle = "closed"
    /\ ~file.openable => handle = "unopened"

\* a run over two hosts went through every stage and saved
C10_Witness ==
    /\ trace = <<"check", "parse", "render", "render", "name", "save">>
    /\ handle = "closed"
    /\ status = "0"

====
